---- MODULE Spec2Model ----
(***************************************************************************)
(* Model of the expressive-state-mapper engines:                           *)
(*   src/python/feature_extractor.py   (Feature Extraction Engine)         *)
(*   src/python/baseline_analyzer.py   (Baseline & Anomaly Engine)         *)
(*   src/python/compute_baseline.py, src/python/extract_features.py (CLI)  *)
(*                                                                         *)
(* Every engine operation is a pure function, modelled as an operator.     *)
(* Each specification draws the inputs of one pipeline in its Init and     *)
(* applies the operations one call per action.                             *)
(*                                                                         *)
(* Numbers: Python floats are modelled as exact rationals <<n, d>> in      *)
(* lowest terms with d > 0.  The one irrational operation the baseline     *)
(* engine needs, np.std's square root, is taken to three decimals.         *)
(* Dictionaries whose iteration order the code depends on are sequences of *)
(* [k, v] records in insertion order; the others are functions.            *)
(***************************************************************************)
EXTENDS Integers, Sequences, FiniteSets, TLC

VARIABLES
    pc,                \* position in the pipeline of the specification
    feature_history,   \* compute_robust_baseline: list of feature dicts
    window,            \* compute_robust_baseline: window
    baseline,          \* result of compute_robust_baseline
    current_features,  \* compute_z_scores: the current feature dict (ordered)
    zmap,              \* result of compute_z_scores (ordered)
    trim,              \* compute_anomaly_score: trim
    anomaly_score,     \* result of compute_anomaly_score
    top_n,             \* identify_top_contributing_features: top_n
    top_features,      \* result of identify_top_contributing_features
    interpretation,    \* result of generate_interpretation_text
    anomaly_scores,    \* detect_change_points_simple: the score series
    threshold,         \* detect_change_points_simple: threshold
    change_points,     \* result of detect_change_points_simple
    drawing_data,      \* extract_features: the drawing payload
    features,          \* result of extract_features
    qc                 \* result of compute_qc_flags

vars == <<pc, feature_history, window, baseline, current_features, zmap, trim,
          anomaly_score, top_n, top_features, interpretation, anomaly_scores,
          threshold, change_points, drawing_data, features, qc>>

baselineVars == <<feature_history, window, baseline, current_features>>
scoreVars == <<trim, anomaly_score, top_n, top_features, interpretation>>
changeVars == <<anomaly_scores, threshold, change_points>>
extractVars == <<drawing_data, features, qc>>

\* A variable no call has assigned yet.
None == "None"

(***************************************************************************)
(* Rational arithmetic                                                     *)
(***************************************************************************)
Abs(i) == IF i < 0 THEN -i ELSE i

Min(a, b) == IF a <= b THEN a ELSE b

Max(a, b) == IF a >= b THEN a ELSE b

RECURSIVE GCD(_, _)
GCD(a, b) == IF b = 0 THEN a ELSE GCD(b, a % b)

\* n/d in lowest terms, d > 0.
Norm(n, d) ==
    LET g == GCD(Abs(n), Abs(d))
        s == IF d < 0 THEN -1 ELSE 1
    IN  <<s * (n \div g), s * (d \div g)>>

R(i) == <<i, 1>>

RAdd(a, b) == Norm(a[1] * b[2] + b[1] * a[2], a[2] * b[2])

RSub(a, b) == Norm(a[1] * b[2] - b[1] * a[2], a[2] * b[2])

RMul(a, b) == Norm(a[1] * b[1], a[2] * b[2])

RDiv(a, b) == Norm(a[1] * b[2], a[2] * b[1])

RAbs(a) == <<Abs(a[1]), a[2]>>

RLt(a, b) == a[1] * b[2] < b[1] * a[2]

RLe(a, b) == a[1] * b[2] <= b[1] * a[2]

RGt(a, b) == RLt(b, a)

RECURSIVE RSum(_)
RSum(s) == IF s = <<>> THEN R(0) ELSE RAdd(Head(s), RSum(Tail(s)))

\* np.mean / statistics mean of a non-empty sequence of rationals.
RMean(s) == RDiv(RSum(s), R(Len(s)))

\* floor(sqrt(n)) by bisection on lo..hi.
RECURSIVE ISqrtIn(_, _, _)
ISqrtIn(n, lo, hi) ==
    IF lo >= hi THEN lo
    ELSE LET mid == (lo + hi + 1) \div 2
         IN  IF mid * mid <= n THEN ISqrtIn(n, mid, hi)
             ELSE ISqrtIn(n, lo, mid - 1)

ISqrt(n) == ISqrtIn(n, 0, Min(n, 46340))

\* sqrt of a non-negative rational, truncated to three decimals.
RSqrt(a) == Norm(ISqrt((a[1] * 1000000) \div a[2]), 1000)

(***************************************************************************)
(* numpy helpers used by baseline_analyzer.py                              *)
(***************************************************************************)
\* Insert x in the ascending sequence s.
RECURSIVE InsertAsc(_, _)
InsertAsc(x, s) ==
    IF s = <<>> THEN <<x>>
    ELSE IF RLe(x, Head(s)) THEN <<x>> \o s
    ELSE <<Head(s)>> \o InsertAsc(x, Tail(s))

RECURSIVE SortAsc(_)
SortAsc(s) == IF s = <<>> THEN <<>> ELSE InsertAsc(Head(s), SortAsc(Tail(s)))

\* np.median: the middle of the sorted values, or the mean of the two middles.
NpMedian(values) ==
    LET srt == SortAsc(values)
        n == Len(srt)
    IN  IF n % 2 = 1 THEN srt[(n + 1) \div 2]
        ELSE RDiv(RAdd(srt[n \div 2], srt[n \div 2 + 1]), R(2))

\* |values - median| element-wise.
AbsDev(values, median) ==
    [i \in 1..Len(values) |-> RAbs(RSub(values[i], median))]

\* np.std: the population standard deviation.
NpStd(values) ==
    LET mean == RMean(values)
        sq == [i \in 1..Len(values) |->
                  RMul(RSub(values[i], mean), RSub(values[i], mean))]
    IN  RSqrt(RMean(sq))

(***************************************************************************)
(* baseline_analyzer.compute_robust_baseline                               *)
(***************************************************************************)
\* "if mad < 1e-6"
MadEps == <<1, 1000000>>

\* "mad = np.std(values) / 1.253"
StdToMad == <<1253, 1000>>

\* "mad = 0.1  # Fallback"
MadFallback == <<1, 10>>

\* "if len(values) < 3"
MinObservations == 3

\* window: int = 30
DefaultWindow == 30

\* Mutant of SliceTo: the window is ignored and the whole history is used.
SliceTo_WholeHistory(s, w) == s

\* Python's s[:w]: the first w entries, or all but the last -w when w < 0.
SliceTo(s, w) ==
    LET n == IF w >= 0 THEN Min(w, Len(s)) ELSE Max(Len(s) + w, 0)
    IN  SubSeq(s, 1, n)

\* feature_values[key]: the key's values in the entries that carry it, in order.
RECURSIVE FeatureValues(_, _)
FeatureValues(recent, key) ==
    IF recent = <<>> THEN <<>>
    ELSE (IF key \in DOMAIN Head(recent) THEN <<R(Head(recent)[key])>> ELSE <<>>)
         \o FeatureValues(Tail(recent), key)

\* The keys of feature_values: every key of every entry of recent.
FeatureKeys(recent) == UNION {DOMAIN recent[i] : i \in 1..Len(recent)}

\* Mutant of FlooredMad: the std estimate is kept even when it is degenerate too.
FlooredMad_NoFallback(values) ==
    LET median == NpMedian(values)
        mad == NpMedian(AbsDev(values, median))
    IN  IF RLt(mad, MadEps) THEN RDiv(NpStd(values), StdToMad) ELSE mad

\* The mad of one feature after the "Avoid zero MAD" floor.
FlooredMad(values) ==
    LET median == NpMedian(values)
        mad == NpMedian(AbsDev(values, median))
    IN  IF RLt(mad, MadEps)
        THEN LET mad2 == RDiv(NpStd(values), StdToMad)
             IN  IF RLt(mad2, MadEps) THEN MadFallback ELSE mad2
        ELSE mad

\* baseline[key] for one feature.
BaselineEntry(values) ==
    IF Len(values) < MinObservations
    THEN [median |-> NpMedian(values), mad |-> R(0)]
    ELSE [median |-> NpMedian(values), mad |-> FlooredMad(values)]

compute_robust_baseline(history, w) ==
    IF history = <<>> THEN <<>>
    ELSE LET recent == SliceTo(history, w)
         IN  [key \in FeatureKeys(recent) |->
                 BaselineEntry(FeatureValues(recent, key))]
(***************************************************************************)
(* baseline_analyzer.compute_z_scores                                      *)
(***************************************************************************)
\* Mutant of ZScore: a feature absent from the baseline is judged against 0 / 1.
ZScore_AbsentAsRaw(key, value, base) ==
    IF key \notin DOMAIN base THEN R(value)
    ELSE LET median == base[key].median
             mad == base[key].mad
         IN  IF RGt(mad, R(0)) THEN RDiv(RSub(R(value), median), mad)
             ELSE R(0)

\* zmap[key] for one (key, value) of the current features.
ZScore(key, value, base) ==
    IF key \notin DOMAIN base THEN R(0)
    ELSE LET median == base[key].median
             mad == base[key].mad
         IN  IF RGt(mad, R(0)) THEN RDiv(RSub(R(value), median), mad)
             ELSE R(0)

\* The current features are iterated in insertion order; zmap keeps that order.
compute_z_scores(feats, base) ==
    [i \in 1..Len(feats) |->
        [k |-> feats[i].k, v |-> ZScore(feats[i].k, feats[i].v, base)]]

(***************************************************************************)
(* baseline_analyzer.compute_anomaly_score (scipy.stats.trim_mean)         *)
(***************************************************************************)
\* trim: float = 0.2
DefaultTrim == <<1, 5>>

\* abs_z = [abs(z) for z in zmap.values()]
AbsZ(zm) == [i \in 1..Len(zm) |-> RAbs(zm[i].v)]

\* trim_mean: lowercut = int(proportiontocut * nobs)
LowerCut(proportion, nobs) == (proportion[1] * nobs) \div proportion[2]

\* scipy.stats.trim_mean(a, proportiontocut) of a non-empty list: the mean of
\* the sorted values between lowercut and nobs - lowercut; "Proportion too
\* big." when the cuts cross, and nan for the mean of an empty slice.
trim_mean(a, proportion) ==
    LET nobs == Len(a)
        lowercut == LowerCut(proportion, nobs)
        uppercut == nobs - lowercut
    IN  IF lowercut > uppercut THEN "ValueError"
        ELSE IF lowercut = uppercut THEN "nan"
        ELSE RMean(SubSeq(SortAsc(a), lowercut + 1, uppercut))

\* Mutant of compute_anomaly_score: the plain mean, nothing trimmed.
compute_anomaly_score_Untrimmed(zm, tr) ==
    IF zm = <<>> THEN R(0) ELSE RMean(AbsZ(zm))

compute_anomaly_score(zm, tr) ==
    IF zm = <<>> THEN R(0) ELSE trim_mean(AbsZ(zm), tr)

(***************************************************************************)
(* baseline_analyzer.identify_top_contributing_features                    *)
(***************************************************************************)
\* top_n: int = 5
DefaultTopN == 5

\* Mutant of InsertDesc: an item goes behind the items of equal |z|.
RECURSIVE InsertDesc_BehindTies(_, _)
InsertDesc_BehindTies(item, s) ==
    IF s = <<>> THEN <<item>>
    ELSE IF RLt(RAbs(Head(s).v), RAbs(item.v)) THEN <<item>> \o s
    ELSE <<Head(s)>> \o InsertDesc_BehindTies(item, Tail(s))

\* Insert an item in front of the first item whose |z| is not larger.
RECURSIVE InsertDesc(_, _)
InsertDesc(item, s) ==
    IF s = <<>> THEN <<item>>
    ELSE IF RLe(RAbs(Head(s).v), RAbs(item.v)) THEN <<item>> \o s
    ELSE <<Head(s)>> \o InsertDesc(item, Tail(s))

\* sorted(zmap.items(), key=lambda x: abs(x[1]), reverse=True): Python's sort is
\* stable, also with reverse=True, so items of equal |z| keep their order.
RECURSIVE SortedByAbsDesc(_)
SortedByAbsDesc(items) ==
    IF items = <<>> THEN <<>>
    ELSE InsertDesc(Head(items), SortedByAbsDesc(Tail(items)))

identify_top_contributing_features(zm, n) == SliceTo(SortedByAbsDesc(zm), n)

(***************************************************************************)
(* baseline_analyzer.generate_interpretation_text                          *)
(***************************************************************************)
descriptions ==
    [k \in {"geom.mean_curvature", "geom.total_length", "geom.pen_lift_rate",
            "color.hue_variance", "color.palette_size", "comp.spatial_entropy",
            "geom.mean_velocity", "geom.std_velocity", "comp.vertical_symmetry",
            "layer.eraser_ratio"} |->
        CASE k = "geom.mean_curvature" -> "curvature"
          [] k = "geom.total_length" -> "total ink length"
          [] k = "geom.pen_lift_rate" -> "pen lifts"
          [] k = "color.hue_variance" -> "color diversity"
          [] k = "color.palette_size" -> "number of colors"
          [] k = "comp.spatial_entropy" -> "spatial distribution"
          [] k = "geom.mean_velocity" -> "drawing speed"
          [] k = "geom.std_velocity" -> "speed variation"
          [] k = "comp.vertical_symmetry" -> "symmetry"
          [] k = "layer.eraser_ratio" -> "eraser usage"]

\* "for feature, z in top_features[:3]"
TopShown == 3

\* Mutant of Direction: the sign test is inverted.
Direction_Inverted(z) == IF RGt(z, R(0)) THEN "lower" ELSE "higher"

\* direction = "higher" if z > 0 else "lower"
Direction(z) == IF RGt(z, R(0)) THEN "higher" ELSE "lower"

\* f"{direction} {desc}" with desc = descriptions.get(feature, feature)
Part(item) ==
    LET desc == IF item.k \in DOMAIN descriptions THEN descriptions[item.k]
                ELSE item.k
    IN  Direction(item.v) \o " " \o desc

\* ", ".join(parts)
RECURSIVE Join(_)
Join(parts) ==
    IF parts = <<>> THEN ""
    ELSE IF Len(parts) = 1 THEN parts[1]
    ELSE parts[1] \o ", " \o Join(Tail(parts))

generate_interpretation_text(top) ==
    IF top = <<>> THEN "No significant deviations detected."
    ELSE LET shown == SliceTo(top, TopShown)
         IN  "Top signals: " \o Join([i \in 1..Len(shown) |-> Part(shown[i])])

(***************************************************************************)
(* baseline_analyzer.detect_change_points_simple                           *)
(***************************************************************************)
\* threshold: float = 2.5
DefaultThreshold == <<5, 2>>

\* "if len(anomaly_scores) < 5"
MinScores == 5

\* The indices (from 0) of the scores farther than limit from the median.
RECURSIVE Flagged(_, _, _, _)
Flagged(scores, median, limit, i) ==
    IF i > Len(scores) THEN <<>>
    ELSE (IF RGt(RAbs(RSub(scores[i], median)), limit) THEN <<i - 1>> ELSE <<>>)
         \o Flagged(scores, median, limit, i + 1)

\* Mutant of detect_change_points_simple: no guard against a degenerate MAD.
detect_change_points_NoMadGuard(scores, thr) ==
    IF Len(scores) < MinScores THEN <<>>
    ELSE LET median == NpMedian(scores)
             mad == NpMedian(AbsDev(scores, median))
         IN  Flagged(scores, median, RMul(thr, mad), 1)

detect_change_points_simple(scores, thr) ==
    IF Len(scores) < MinScores THEN <<>>
    ELSE LET median == NpMedian(scores)
             mad == NpMedian(AbsDev(scores, median))
         IN  IF RLt(mad, MadEps) THEN <<>>
             ELSE Flagged(scores, median, RMul(thr, mad), 1)

(***************************************************************************)
(* feature_extractor.py: helpers                                           *)
(***************************************************************************)
\* dict.get(key, default)
Get(d, key, default) == IF key \in DOMAIN d THEN d[key] ELSE default

\* Python's int() of the float a / b, b > 0: truncation toward zero.
TruncDiv(a, b) == IF a >= 0 THEN a \div b ELSE -((-a) \div b)

RFloor(a) == a[1] \div a[2]

\* Python's round(): to the nearest integer, a half to the even neighbour.
RoundHalfEven(a) ==
    LET f == RFloor(a)
        frac == RSub(a, R(f))
    IN  IF RLt(frac, <<1, 2>>) THEN f
        ELSE IF RGt(frac, <<1, 2>>) THEN f + 1
        ELSE IF f % 2 = 0 THEN f ELSE f + 1

RMax(a, b) == IF RLt(a, b) THEN b ELSE a

RMin(a, b) == IF RLt(b, a) THEN b ELSE a

\* Python's float a % m for m > 0: the result lies in [0, m).
RMod(a, m) == RSub(a, RMul(m, R(RFloor(RDiv(a, m)))))

\* np.var: the population variance.
NpVar(values) ==
    LET mean == RMean(values)
    IN  RMean([i \in 1..Len(values) |->
                  RMul(RSub(values[i], mean), RSub(values[i], mean))])

RECURSIVE Flatten(_)
Flatten(ss) == IF ss = <<>> THEN <<>> ELSE Head(ss) \o Flatten(Tail(ss))

\* A value the code computes with sqrt, acos or log, kept as the operation and
\* its exact integer arguments.
Sym(operation, args) == [op |-> operation, of |-> args]

\* drawing_data.get("canvas_w", 800)
DefaultCanvasW == 800

\* drawing_data.get("canvas_h", 600)
DefaultCanvasH == 600

(***************************************************************************)
(* feature_extractor.extract_composition_features                          *)
(***************************************************************************)
\* grid_size = 10
GridSize == 10

\* thirds_grid = np.zeros((3, 3))
ThirdsSize == 3

\* all_points: the points of all strokes, in order.
AllPoints(strokes) ==
    Flatten([s \in 1..Len(strokes) |-> Get(strokes[s], "points", <<>>)])

\* i = min(int(x / canvas_w * grid_size), grid_size - 1), and for the thirds
\* i = min(int(x / (canvas_w / 3)), 2): clamped from above only.
CellIndex(coord, extent, size) == Min(TruncDiv(coord * size, extent), size - 1)

\* grid[j, i] on a numpy array: a negative index counts from the end, and an
\* index below -size raises IndexError.
IndexFails(idx, size) == idx < -size

NpIndex(idx, size) == IF idx < 0 THEN idx + size ELSE idx

\* The cell <<j, i>> that grid[j, i] += 1 increments for a point.
CellOf(p, canvas_w, canvas_h, size) ==
    <<NpIndex(CellIndex(p.y, canvas_h, size), size),
      NpIndex(CellIndex(p.x, canvas_w, size), size)>>

\* The grid after the loop, as the count of every occupied cell.
GridCounts(points, canvas_w, canvas_h, size) ==
    LET cell(n) == CellOf(points[n], canvas_w, canvas_h, size)
    IN  [c \in {cell(n) : n \in 1..Len(points)} |->
            Cardinality({n \in 1..Len(points) : cell(n) = c})]

\* extract_composition_features raises IndexError for such a point.
CompositionFails(strokes, canvas_w, canvas_h) ==
    \E n \in 1..Len(AllPoints(strokes)) :
        LET p == AllPoints(strokes)[n]
        IN  \/ IndexFails(CellIndex(p.x, canvas_w, GridSize), GridSize)
            \/ IndexFails(CellIndex(p.y, canvas_h, GridSize), GridSize)
            \/ IndexFails(CellIndex(p.x, canvas_w, ThirdsSize), ThirdsSize)
            \/ IndexFails(CellIndex(p.y, canvas_h, ThirdsSize), ThirdsSize)

extract_composition_features(strokes, canvas_w, canvas_h) ==
    LET pts == AllPoints(strokes)
        n == Len(pts)
        left == Cardinality({i \in 1..n : 2 * pts[i].x < canvas_w})
        right == Cardinality({i \in 1..n : 2 * pts[i].x >= canvas_w})
        val(k) ==
            CASE k = "comp.centroid_x" ->
                     RDiv(RMean([i \in 1..n |-> R(pts[i].x)]), R(canvas_w))
              [] k = "comp.centroid_y" ->
                     RDiv(RMean([i \in 1..n |-> R(pts[i].y)]), R(canvas_h))
              [] k = "comp.spatial_entropy" ->
                     Sym("entropy", GridCounts(pts, canvas_w, canvas_h, GridSize))
              [] k = "comp.thirds_occupied" ->
                     R(Cardinality(DOMAIN GridCounts(pts, canvas_w, canvas_h,
                                                    ThirdsSize)))
              [] k = "comp.vertical_symmetry" ->
                     Sym("symmetry", <<left, right>>)
    IN  IF n = 0 THEN <<>>
        ELSE [k \in {"comp.centroid_x", "comp.centroid_y", "comp.spatial_entropy",
                     "comp.thirds_occupied", "comp.vertical_symmetry"} |-> val(k)]

(***************************************************************************)
(* feature_extractor.extract_geometry_features                             *)
(***************************************************************************)
\* "if len(points) < 2: continue"
MinStrokePoints == 2

\* The point lists of the strokes the loop does not skip.
MeasuredStrokes(strokes) ==
    LET kept == SelectSeq(strokes,
                    LAMBDA st : Len(Get(st, "points", <<>>)) >= MinStrokePoints)
    IN  [s \in 1..Len(kept) |-> Get(kept[s], "points", <<>>)]

\* dx*dx + dy*dy of the segment that ends at point i.
SegmentSq(points, i) ==
    LET dx == points[i].x - points[i - 1].x
        dy == points[i].y - points[i - 1].y
    IN  dx * dx + dy * dy

\* The squared segment lengths of one stroke; its length is the sum of their roots.
StrokeSegments(points) == [i \in 1..(Len(points) - 1) |-> SegmentSq(points, i + 1)]

\* The vector pairs (v1, v2) at the interior points of one stroke.
StrokeTurns(points) ==
    [i \in 1..Max(Len(points) - 2, 0) |->
        <<points[i + 1].x - points[i].x, points[i + 1].y - points[i].y,
          points[i + 2].x - points[i + 1].x, points[i + 2].y - points[i + 1].y>>]

\* (squared distance, dt in ms) of the segments of one stroke with dt > 0.
StrokeVelocities(points) ==
    LET all == [i \in 1..(Len(points) - 1) |->
                   <<SegmentSq(points, i + 1), points[i + 1].t - points[i].t>>]
    IN  SelectSeq(all, LAMBDA sv : sv[2] > 0)

\* The pressure values of the points of one stroke that carry one.
StrokePressures(points) ==
    LET with == SelectSeq(points, LAMBDA pt : "pressure" \in DOMAIN pt)
    IN  [i \in 1..Len(with) |-> with[i].pressure]

\* total_time = max(total_time, points[-1]["t"]) over the measured strokes.
RECURSIVE TotalTime(_)
TotalTime(measured) ==
    IF measured = <<>> THEN 0
    ELSE LET points == measured[Len(measured)]
         IN  Max(TotalTime(SubSeq(measured, 1, Len(measured) - 1)),
                 points[Len(points)].t)

extract_geometry_features(strokes) ==
    LET measured == MeasuredStrokes(strokes)
        m == Len(measured)
        stroke_lengths == [s \in 1..m |-> StrokeSegments(measured[s])]
        curvatures == Flatten([s \in 1..m |-> StrokeTurns(measured[s])])
        velocities == Flatten([s \in 1..m |-> StrokeVelocities(measured[s])])
        pressures == Flatten([s \in 1..m |-> StrokePressures(measured[s])])
        pen_lifts == Len(strokes)
        total_time == TotalTime(measured)
        val(k) ==
            CASE k = "geom.total_length" -> Sym("sum_sqrt", Flatten(stroke_lengths))
              [] k = "geom.mean_stroke_length" ->
                     IF m > 0 THEN Sym("mean_length", stroke_lengths) ELSE R(0)
              [] k = "geom.std_stroke_length" ->
                     IF m > 0 THEN Sym("std_length", stroke_lengths) ELSE R(0)
              [] k = "geom.mean_curvature" ->
                     IF curvatures # <<>> THEN Sym("mean_angle", curvatures) ELSE R(0)
              [] k = "geom.max_curvature" ->
                     IF curvatures # <<>> THEN Sym("max_angle", curvatures) ELSE R(0)
              [] k = "geom.high_curvature_pct" ->
                     IF curvatures # <<>> THEN Sym("pct_angle_gt_1", curvatures)
                     ELSE R(0)
              [] k = "geom.mean_velocity" ->
                     IF velocities # <<>> THEN Sym("mean_velocity", velocities)
                     ELSE R(0)
              [] k = "geom.std_velocity" ->
                     IF velocities # <<>> THEN Sym("std_velocity", velocities)
                     ELSE R(0)
              [] k = "geom.mean_pressure" ->
                     IF pressures # <<>> THEN RMean(pressures) ELSE R(1)
              [] k = "geom.std_pressure" ->
                     IF pressures # <<>> THEN NpStd(pressures) ELSE R(0)
              [] k = "geom.pen_lift_rate" ->
                     IF total_time > 0 THEN RDiv(R(pen_lifts), <<total_time, 1000>>)
                     ELSE R(0)
    IN  [k \in {"geom.total_length", "geom.mean_stroke_length",
                "geom.std_stroke_length", "geom.mean_curvature",
                "geom.max_curvature", "geom.high_curvature_pct",
                "geom.mean_velocity", "geom.std_velocity", "geom.mean_pressure",
                "geom.std_pressure", "geom.pen_lift_rate"} |-> val(k)]

(***************************************************************************)
(* feature_extractor.rgb_to_hsv and extract_color_features                 *)
(***************************************************************************)
\* int(c, 16) of one hexadecimal digit.
HexDigit(c) ==
    CASE c = "0" -> 0 [] c = "1" -> 1 [] c = "2" -> 2 [] c = "3" -> 3
      [] c = "4" -> 4 [] c = "5" -> 5 [] c = "6" -> 6 [] c = "7" -> 7
      [] c = "8" -> 8 [] c = "9" -> 9
      [] c \in {"A", "a"} -> 10 [] c \in {"B", "b"} -> 11
      [] c \in {"C", "c"} -> 12 [] c \in {"D", "d"} -> 13
      [] c \in {"E", "e"} -> 14 [] c \in {"F", "f"} -> 15

\* int(color[a:a+2], 16) / 255.0; a colour is the sequence of its characters.
Channel(color, a) == Norm(16 * HexDigit(color[a + 1]) + HexDigit(color[a + 2]), 255)

\* stroke.get("color", "#000000")
DefaultColor == <<"#", "0", "0", "0", "0", "0", "0">>

rgb_to_hsv(r, g, b) ==
    LET max_c == RMax(r, RMax(g, b))
        min_c == RMin(r, RMin(g, b))
        delta == RSub(max_c, min_c)
        v == max_c
        s == IF max_c = R(0) THEN R(0) ELSE RDiv(delta, max_c)
        h == IF delta = R(0) THEN R(0)
             ELSE IF max_c = r THEN RMod(RDiv(RSub(g, b), delta), R(6))
             ELSE IF max_c = g THEN RAdd(RDiv(RSub(b, r), delta), R(2))
             ELSE RAdd(RDiv(RSub(r, g), delta), R(4))
    IN  <<RDiv(h, R(6)), s, v>>

\* "quantized_hues = [round(h * 12) for h in hues]  # 12 bins"
HueBins == 12

QuantizedHue(h) == RoundHalfEven(RMul(h, R(HueBins)))

\* The (h, s, v) of the strokes whose colour starts with "#".
StrokeColors(strokes) ==
    LET hex == SelectSeq(strokes,
                   LAMBDA st : Get(st, "color", DefaultColor)[1] = "#")
    IN  [i \in 1..Len(hex) |->
            LET color == Get(hex[i], "color", DefaultColor)
            IN  rgb_to_hsv(Channel(color, 1), Channel(color, 3), Channel(color, 5))]

\* "0 <= h < 0.17 or h > 0.83"
IsWarm(h) == (RLe(R(0), h) /\ RLt(h, <<17, 100>>)) \/ RGt(h, <<83, 100>>)

extract_color_features(strokes) ==
    LET colors == StrokeColors(strokes)
        n == Len(colors)
        hues == [i \in 1..n |-> colors[i][1]]
        sats == [i \in 1..n |-> colors[i][2]]
        vals == [i \in 1..n |-> colors[i][3]]
        opacities == [i \in 1..Len(strokes) |-> Get(strokes[i], "opacity", R(1))]
        val(k) ==
            CASE k = "color.palette_size" ->
                     IF n > 0
                     THEN R(Cardinality({QuantizedHue(hues[i]) : i \in 1..n}))
                     ELSE R(1)
              [] k = "color.hue_variance" -> IF n > 0 THEN NpVar(hues) ELSE R(0)
              [] k = "color.mean_saturation" -> IF n > 0 THEN RMean(sats) ELSE R(0)
              [] k = "color.mean_value" -> IF n > 0 THEN RMean(vals) ELSE R(0)
              [] k = "color.warm_proportion" ->
                     IF n > 0
                     THEN Norm(Cardinality({i \in 1..n : IsWarm(hues[i])}), n)
                     ELSE R(0)
              [] k = "color.mean_opacity" ->
                     IF opacities # <<>> THEN RMean(opacities) ELSE R(1)
              [] k = "color.std_opacity" ->
                     IF opacities # <<>> THEN NpStd(opacities) ELSE R(0)
    IN  [k \in {"color.palette_size", "color.hue_variance",
                "color.mean_saturation", "color.mean_value",
                "color.warm_proportion", "color.mean_opacity",
                "color.std_opacity"} |-> val(k)]

(***************************************************************************)
(* feature_extractor.extract_layering_features                             *)
(***************************************************************************)
extract_layering_features(strokes) ==
    LET n == Len(strokes)
        layers == [i \in 1..n |-> R(Get(strokes[i], "layer", 0))]
        eraser_count ==
            Cardinality({i \in 1..n : Get(strokes[i], "tool", None) = "eraser"})
        val(k) ==
            CASE k = "layer.mean" -> IF n > 0 THEN RMean(layers) ELSE R(0)
              [] k = "layer.std" -> IF n > 0 THEN NpStd(layers) ELSE R(0)
              [] k = "layer.eraser_ratio" ->
                     IF n > 0 THEN Norm(eraser_count, n) ELSE R(0)
    IN  [k \in {"layer.mean", "layer.std", "layer.eraser_ratio"} |-> val(k)]

(***************************************************************************)
(* feature_extractor.get_empty_features, extract_features, compute_qc_flags*)
(***************************************************************************)
\* The default vector; the total length 0 is the empty sum of segment lengths.
get_empty_features ==
    [k \in {"comp.centroid_x", "comp.centroid_y", "comp.spatial_entropy",
            "comp.thirds_occupied", "comp.vertical_symmetry",
            "geom.total_length", "geom.mean_stroke_length",
            "geom.std_stroke_length", "geom.mean_curvature",
            "geom.max_curvature", "geom.high_curvature_pct",
            "geom.mean_velocity", "geom.std_velocity", "geom.mean_pressure",
            "geom.std_pressure", "geom.pen_lift_rate", "color.palette_size",
            "color.hue_variance", "color.mean_saturation", "color.mean_value",
            "color.warm_proportion", "color.mean_opacity", "color.std_opacity",
            "layer.mean", "layer.std", "layer.eraser_ratio"} |->
        CASE k \in {"comp.centroid_x", "comp.centroid_y"} -> <<1, 2>>
          [] k = "geom.total_length" -> Sym("sum_sqrt", <<>>)
          [] k \in {"comp.vertical_symmetry", "geom.mean_pressure",
                    "color.palette_size", "color.mean_opacity"} -> R(1)
          [] OTHER -> R(0)]

\* features.update(...): the entries of b replace or extend those of a.
Update(a, b) ==
    [k \in DOMAIN a \cup DOMAIN b |-> IF k \in DOMAIN b THEN b[k] ELSE a[k]]

\* extract_features raises instead of returning.
ExtractFails(dd) ==
    /\ Get(dd, "strokes", <<>>) # <<>>
    /\ CompositionFails(Get(dd, "strokes", <<>>),
                        Get(dd, "canvas_w", DefaultCanvasW),
                        Get(dd, "canvas_h", DefaultCanvasH))

extract_features(dd) ==
    LET strokes == Get(dd, "strokes", <<>>)
        canvas_w == Get(dd, "canvas_w", DefaultCanvasW)
        canvas_h == Get(dd, "canvas_h", DefaultCanvasH)
    IN  IF strokes = <<>> THEN get_empty_features
        ELSE Update(Update(Update(
                 extract_composition_features(strokes, canvas_w, canvas_h),
                 extract_geometry_features(strokes)),
                 extract_color_features(strokes)),
                 extract_layering_features(strokes))

\* "features.get("geom.total_length", 0) < 10"
TooShortLength == 10

\* "len(strokes) < 3"
FewStrokes == 3

\* sum(sqrt(d) for d in squares) < limit, decided on integers: by the floors
\* and ceilings of the roots, and by the roots to three decimals in between.
SqrtSumLt(squares, limit) ==
    LET n == Len(squares)
        lower == RSum([i \in 1..n |-> R(ISqrt(squares[i]))])
        upper == RSum([i \in 1..n |->
                     R(IF ISqrt(squares[i]) * ISqrt(squares[i]) = squares[i]
                       THEN ISqrt(squares[i]) ELSE ISqrt(squares[i]) + 1)])
    IN  IF lower = upper THEN RLt(lower, R(limit))
        ELSE IF RLe(upper, R(limit)) THEN TRUE
        ELSE IF RLe(R(limit), lower) THEN FALSE
        ELSE RLt(RSum([i \in 1..n |-> RSqrt(R(squares[i]))]), R(limit))

compute_qc_flags(feats, strokes) ==
    LET has_pressure ==
            \E s \in 1..Len(strokes) :
                \E i \in 1..Len(Get(strokes[s], "points", <<>>)) :
                    "pressure" \in DOMAIN Get(strokes[s], "points", <<>>)[i]
        too_short ==
            IF "geom.total_length" \in DOMAIN feats
            THEN SqrtSumLt(feats["geom.total_length"].of, TooShortLength)
            ELSE 0 < TooShortLength
    IN  [too_short |-> too_short,
         missing_pressure |-> ~has_pressure,
         too_few_strokes |-> Len(strokes) < FewStrokes]

(***************************************************************************)
(* Inputs of the baseline pipeline                                         *)
(***************************************************************************)
\* Longest history drawn (besides the five-entry example).
MaxHist == 3

HistKeys == {"x", "y"}

\* The values of feature "x" in a drawn history entry.
XValues == {1, 2, 3}

\* Feature "x" varies; feature "y" is constant whenever present.
EntryValues(k) == IF k = "x" THEN XValues ELSE {1}

\* The feature dicts of a history: any subset of the keys, any values.
Entries ==
    UNION {{f \in [D -> XValues] : \A k \in D : f[k] \in EntryValues(k)} :
              D \in SUBSET HistKeys}

\* [{"x":1},{"x":2},{"x":3},{"x":4},{"x":5}]
ExampleHistory == [i \in 1..5 |-> [k \in {"x"} |-> i]]

\* The histories of at most n entries, and the example.
HistoriesUpTo(n) == UNION {[1..m -> Entries] : m \in 0..n} \cup {ExampleHistory}

Windows == 0..MaxHist \cup {DefaultWindow}

\* Windows of the z-score pipeline: one too short to judge a feature, and the default.
ZWindows == {MinObservations - 1, DefaultWindow}

CurKeys == {"x", "y", "n"}

CurVals == {2, 10}

\* The ordered dicts of at most two distinct keys.
FeatureVecs ==
    {<<>>}
    \cup {<<[k |-> a, v |-> u]>> : a \in CurKeys, u \in CurVals}
    \cup {<<[k |-> a, v |-> u], [k |-> b, v |-> w]>> :
             <<a, b>> \in {p \in CurKeys \X CurKeys : p[1] # p[2]},
             <<u, w>> \in CurVals \X CurVals}

(***************************************************************************)
(* SpecBaseline: compute_robust_baseline(feature_history, window)          *)
(***************************************************************************)
IdleScore ==
    /\ trim = None /\ anomaly_score = None /\ top_n = None
    /\ top_features = None /\ interpretation = None

IdleChange == anomaly_scores = None /\ threshold = None /\ change_points = None

IdleExtract == drawing_data = None /\ features = None /\ qc = None

InitBaseline ==
    /\ pc = "baseline"
    /\ feature_history \in HistoriesUpTo(MaxHist)
    /\ window \in Windows
    /\ baseline = None
    /\ current_features = None
    /\ zmap = None
    /\ IdleScore /\ IdleChange /\ IdleExtract

ComputeBaseline ==
    /\ pc = "baseline"
    /\ baseline' = compute_robust_baseline(feature_history, window)
    /\ pc' = "zscores"
    /\ UNCHANGED <<feature_history, window, current_features, zmap>>
    /\ UNCHANGED <<scoreVars, changeVars, extractVars>>

NextBaseline == ComputeBaseline

SpecBaseline == InitBaseline /\ [][NextBaseline]_vars

(***************************************************************************)
(* SpecZ: baseline = compute_robust_baseline(history, window);             *)
(*        zmap = compute_z_scores(current_features, baseline)              *)
(***************************************************************************)
InitZ ==
    /\ pc = "baseline"
    /\ feature_history \in HistoriesUpTo(MaxHist)
    /\ window \in ZWindows
    /\ baseline = None
    /\ current_features = None
    /\ zmap = None
    /\ IdleScore /\ IdleChange /\ IdleExtract

ComputeZScores ==
    /\ pc = "zscores"
    /\ \E f \in FeatureVecs :
          /\ current_features' = f
          /\ zmap' = compute_z_scores(f, baseline)
    /\ pc' = "done"
    /\ UNCHANGED <<feature_history, window, baseline>>
    /\ UNCHANGED <<scoreVars, changeVars, extractVars>>

NextZ == ComputeBaseline \/ ComputeZScores

SpecZ == InitZ /\ [][NextZ]_vars
(***************************************************************************)
(* Properties of compute_robust_baseline                                   *)
(***************************************************************************)
\* The positions of the history that lie in the window.
InWindow == 1..Min(window, Len(feature_history))

\* The positions in the window whose entry carries the key.
Observed(key) == {i \in InWindow : key \in DOMAIN feature_history[i]}

\* The k-th smallest of the key's values in the window, by counting.
KthSmallest(key, k) ==
    LET val(i) == feature_history[i][key]
    IN  val(CHOOSE i \in Observed(key) :
              /\ Cardinality({j \in Observed(key) : val(j) < val(i)}) < k
              /\ Cardinality({j \in Observed(key) : val(j) <= val(i)}) >= k)

\* The median of the key's values in the window, from the order statistics.
WindowMedian(key) ==
    LET n == Cardinality(Observed(key))
    IN  Norm(KthSmallest(key, (n + 1) \div 2) + KthSmallest(key, n \div 2 + 1), 2)

\* C2 as stated: every entry of the baseline returned by compute_baseline, for
\* every history and window, has a mad that is not exactly zero.
C2_MadNeverZero ==
    pc # "baseline" => \A k \in DOMAIN baseline : baseline[k].mad # R(0)

\* C2 as amended: a baseline entry whose feature was observed at least 3 times
\* in the window has a mad of at least 1e-6, hence never zero; an entry whose
\* feature was observed fewer than 3 times has a mad of exactly 0.
C2_MadFloor ==
    pc # "baseline" =>
        \A k \in DOMAIN baseline :
            IF Cardinality(Observed(k)) >= MinObservations
            THEN RLe(MadEps, baseline[k].mad)
            ELSE baseline[k].mad = R(0)

\* C2 witness: a baseline with a constant feature seen 3 times (mad floored to
\* the fallback 0.1) beside a feature seen fewer than 3 times (mad 0).
C2_Witness ==
    /\ pc # "baseline"
    /\ \E k, l \in DOMAIN baseline :
          /\ Cardinality(Observed(k)) >= MinObservations
          /\ baseline[k].mad = MadFallback
          /\ Cardinality(Observed(l)) < MinObservations
          /\ baseline[l].mad = R(0)

\* C3: compute_baseline(history, window) depends only on the first `window`
\* entries: its keys are the union of the keys of those entries, each median is
\* the median of the key's values in those entries, and dropping, changing or
\* adding entries at positions >= window leaves the result unchanged; five
\* entries x = 1..5 give median 3, mad 1.
C3_WindowOnly ==
    pc # "baseline" =>
        LET h == feature_history
            n == Min(window, Len(h))
        IN  /\ DOMAIN baseline = UNION {DOMAIN h[i] : i \in InWindow}
            /\ \A k \in DOMAIN baseline : baseline[k].median = WindowMedian(k)
            /\ n >= 1 => baseline = compute_robust_baseline(SubSeq(h, 1, n), window)
            /\ Len(h) > window =>
                  \A e \in Entries :
                      baseline = compute_robust_baseline(
                                     [h EXCEPT ![Len(h)] = e], window)
            /\ (Len(h) >= window /\ Len(h) >= 1) =>
                  \A e \in Entries :
                      baseline = compute_robust_baseline(Append(h, e), window)
            /\ (h = ExampleHistory /\ window >= Len(h)) =>
                  baseline = [k \in {"x"} |-> [median |-> R(3), mad |-> R(1)]]

\* C3 witness: a history longer than the window whose last entry carries a key
\* and a value that the baseline does not reflect.
C3_Witness ==
    /\ pc # "baseline"
    /\ window >= 1
    /\ Len(feature_history) > window
    /\ "x" \in DOMAIN baseline
    /\ "y" \notin DOMAIN baseline
    /\ "y" \in DOMAIN feature_history[Len(feature_history)]
    /\ \E i \in InWindow, j \in 1..Len(feature_history) :
          /\ "x" \in DOMAIN feature_history[i]
          /\ "x" \in DOMAIN feature_history[j]
          /\ j > window
          /\ feature_history[j]["x"] > feature_history[i]["x"]
          /\ baseline["x"].median = R(feature_history[i]["x"])

(***************************************************************************)
(* Properties of compute_z_scores                                          *)
(***************************************************************************)
\* C4: z_scores returns exactly the keys of the current features (in their
\* order); a key's z is (value - median) / mad when the key is in the baseline
\* with nonzero mad and 0 otherwise; so a feature absent from the baseline, or
\* observed fewer than 3 times in the history window, gets z = 0.
C4_ZScores ==
    pc = "done" =>
        /\ Len(zmap) = Len(current_features)
        /\ \A i \in 1..Len(zmap) :
              LET k == current_features[i].k
                  v == current_features[i].v
                  z == zmap[i].v
              IN  /\ zmap[i].k = k
                  /\ IF k \in DOMAIN baseline /\ baseline[k].mad # R(0)
                     THEN RMul(z, baseline[k].mad) = RSub(R(v), baseline[k].median)
                     ELSE z = R(0)
                  /\ Cardinality(Observed(k)) < MinObservations => z = R(0)

\* C4 witness: one feature judged against its baseline (z # 0) beside a feature
\* seen fewer than 3 times whose value differs from its median and still gets 0.
C4_Witness ==
    /\ pc = "done"
    /\ \E i, j \in 1..Len(zmap) :
          /\ zmap[i].k \in DOMAIN baseline
          /\ zmap[i].v # R(0)
          /\ zmap[j].k \in DOMAIN baseline
          /\ Cardinality(Observed(zmap[j].k)) < MinObservations
          /\ R(current_features[j].v) # baseline[zmap[j].k].median
          /\ zmap[j].v = R(0)
(***************************************************************************)
(* SpecAnomaly: anomaly_score = compute_anomaly_score(zmap, trim)          *)
(***************************************************************************)
\* Longest z-map drawn for the anomaly score.
MaxZLen == 5

ScoreKeys == <<"a", "b", "c", "d", "e", "f", "g", "h">>

AnomalyZVals == {-2, 1, 3, -4, 5}

\* The z-maps of at most n features.
AnomalyZMapsUpTo(n) ==
    UNION {{[i \in 1..m |-> [k |-> ScoreKeys[i], v |-> R(f[i])]] :
               f \in [1..m -> AnomalyZVals]} : m \in 0..n}

\* Proportions below one half: something is left to average.
Trims == {R(0), <<1, 10>>, DefaultTrim, <<2, 5>>}

IdleBaseline ==
    /\ feature_history = None /\ window = None /\ baseline = None
    /\ current_features = None

InitAnomaly ==
    /\ pc = "anomaly"
    /\ zmap \in AnomalyZMapsUpTo(MaxZLen)
    /\ trim \in Trims
    /\ anomaly_score = None
    /\ top_n = None /\ top_features = None /\ interpretation = None
    /\ IdleBaseline /\ IdleChange /\ IdleExtract

ComputeAnomalyScore ==
    /\ pc = "anomaly"
    /\ anomaly_score' = compute_anomaly_score(zmap, trim)
    /\ pc' = "done"
    /\ UNCHANGED <<zmap, trim, top_n, top_features, interpretation>>
    /\ UNCHANGED <<baselineVars, changeVars, extractVars>>

NextAnomaly == ComputeAnomalyScore

SpecAnomaly == InitAnomaly /\ [][NextAnomaly]_vars

\* The absolute z-scores of the z-map, in its order.
AbsOfZMap == [i \in 1..Len(zmap) |-> IF RLt(zmap[i].v, R(0))
                                     THEN RSub(R(0), zmap[i].v) ELSE zmap[i].v]

\* The sum of the rationals a[i], i in the set S.
RECURSIVE SumAt(_, _)
SumAt(a, S) ==
    IF S = {} THEN R(0)
    ELSE LET i == CHOOSE j \in S : TRUE
         IN  RAdd(a[i], SumAt(a, S \ {i}))

\* The rank 1..n of a[i] among the values, ties ranked by position.
RankIn(a, i) ==
    1 + Cardinality({j \in 1..Len(a) : RLt(a[j], a[i])})
      + Cardinality({j \in 1..(i - 1) : a[j] = a[i]})

\* The positions left when the c lowest and the c highest ranks are discarded.
KeptAfter(a, c) == {i \in 1..Len(a) : c < RankIn(a, i) /\ RankIn(a, i) <= Len(a) - c}

\* C5 as stated: with trim = 0.2 the largest |z| is never part of the average:
\* the score of a non-empty z-map is the mean of what is left after discarding
\* at least one value from each end.
C5_LargestNeverAveraged ==
    (pc = "done" /\ trim = DefaultTrim /\ zmap # <<>>) =>
        \E c \in 1..Len(zmap) :
            /\ KeptAfter(AbsOfZMap, c) # {}
            /\ RMul(anomaly_score, R(Cardinality(KeptAfter(AbsOfZMap, c))))
                   = SumAt(AbsOfZMap, KeptAfter(AbsOfZMap, c))

\* C5 as amended: anomaly_score is 0 for an empty z-map and otherwise the mean
\* of the |z| left after discarding the floor(trim * n) lowest and the
\* floor(trim * n) highest of the n values (trim < 0.5); with trim = 0.2 nothing
\* is discarded from fewer than 5 values, and from 5 values 1..5 the mean of
\* 2, 3, 4 is returned.
C5_TrimmedMean ==
    pc = "done" =>
        LET a == AbsOfZMap
            n == Len(a)
            c == CHOOSE m \in 0..n :
                     m * trim[2] <= trim[1] * n /\ trim[1] * n < (m + 1) * trim[2]
            kept == KeptAfter(a, c)
        IN  IF n = 0 THEN anomaly_score = R(0)
            ELSE /\ kept # {}
                 /\ RMul(anomaly_score, R(Cardinality(kept))) = SumAt(a, kept)
                 /\ (trim = DefaultTrim /\ n < 5) => kept = 1..n
                 /\ (trim = DefaultTrim /\ n = 5) => Cardinality(kept) = 3
                 /\ (trim = DefaultTrim /\ {a[i] : i \in 1..n} = {R(i) : i \in 1..5}
                        /\ n = 5) => anomaly_score = R(3)

\* C5 witness: |z| = 1..5 (in some order) with trim 0.2 scored 3, the mean of 2, 3, 4.
C5_Witness ==
    /\ pc = "done"
    /\ trim = DefaultTrim
    /\ Len(zmap) = 5
    /\ {AbsOfZMap[i] : i \in 1..5} = {R(i) : i \in 1..5}
    /\ zmap[1].v = R(5)
    /\ anomaly_score = R(3)

(***************************************************************************)
(* SpecTop: top_features = identify_top_contributing_features(zmap, top_n) *)
(*          interpretation = generate_interpretation_text(top_features)    *)
(***************************************************************************)
\* Longest z-map drawn for the ranking.
MaxTopLen == 4

\* Insertion orders of the z-map: lexicon keys and keys outside the lexicon.
TopKeyOrders ==
    {<<"geom.mean_curvature", "custom.a", "layer.eraser_ratio", "custom.b",
       "color.palette_size", "custom.c">>,
     <<"custom.b", "geom.total_length", "custom.a", "comp.vertical_symmetry",
       "geom.std_velocity", "custom.c">>}

TopZVals == {-2, 0, 1, 2}

\* The z-maps of at most n features, in either insertion order.
TopZMapsUpTo(n) ==
    UNION {{[i \in 1..m |-> [k |-> o[i], v |-> R(f[i])]] :
               f \in [1..m -> TopZVals], o \in TopKeyOrders} : m \in 0..n}

TopNs == 0..(MaxTopLen + 1) \cup {DefaultTopN}

InitTop ==
    /\ pc = "top"
    /\ zmap \in TopZMapsUpTo(MaxTopLen)
    /\ top_n \in TopNs
    /\ top_features = None
    /\ interpretation = None
    /\ trim = None /\ anomaly_score = None
    /\ IdleBaseline /\ IdleChange /\ IdleExtract

IdentifyTop ==
    /\ pc = "top"
    /\ top_features' = identify_top_contributing_features(zmap, top_n)
    /\ pc' = "interpret"
    /\ UNCHANGED <<zmap, top_n, trim, anomaly_score, interpretation>>
    /\ UNCHANGED <<baselineVars, changeVars, extractVars>>

GenerateInterpretation ==
    /\ pc = "interpret"
    /\ interpretation' = generate_interpretation_text(top_features)
    /\ pc' = "done"
    /\ UNCHANGED <<zmap, top_n, trim, anomaly_score, top_features>>
    /\ UNCHANGED <<baselineVars, changeVars, extractVars>>

NextTop == IdentifyTop \/ GenerateInterpretation

SpecTop == InitTop /\ [][NextTop]_vars

\* The position in zmap of the feature ranked i-th.
ZPos(i) == CHOOSE p \in 1..Len(zmap) : zmap[p].k = top_features[i].k

\* C6: top_contributing_features returns min(top_n, |zmap|) distinct (feature, z)
\* pairs of zmap in order of non-increasing |z|; no omitted feature has a larger
\* |z| than a returned one; features of equal |z| appear in insertion order.
C6_TopFeatures ==
    pc # "top" =>
        LET t == top_features
            absv(item) == RAbs(item.v)
        IN  /\ Len(t) = Min(top_n, Len(zmap))
            /\ \A i \in 1..Len(t) : \E p \in 1..Len(zmap) : zmap[p] = t[i]
            /\ \A i, j \in 1..Len(t) : i # j => t[i].k # t[j].k
            /\ \A i, j \in 1..Len(t) : i < j => RLe(absv(t[j]), absv(t[i]))
            /\ \A p \in 1..Len(zmap) :
                  (\A i \in 1..Len(t) : t[i].k # zmap[p].k) =>
                      \A i \in 1..Len(t) : RLe(absv(zmap[p]), absv(t[i]))
            /\ \A i, j \in 1..Len(t) :
                  (i < j /\ absv(t[i]) = absv(t[j])) => ZPos(i) < ZPos(j)

\* C6 witness: a ranking cut short by top_n that holds two features of equal
\* |z| and opposite sign and leaves a feature out.
C6_Witness ==
    /\ pc # "top"
    /\ top_n < Len(zmap)
    /\ Len(top_features) = top_n
    /\ \E i, j \in 1..Len(top_features) :
          /\ i < j
          /\ top_features[i].v = R(-2)
          /\ top_features[j].v = R(2)
    /\ zmap[1].v = R(1)

\* The phrases the claim allows for one ranked feature: "higher" for z > 0,
\* "lower" for z < 0 (the claim leaves z = 0 open).
PhrasesFor(item) ==
    LET desc == IF item.k \in DOMAIN descriptions THEN descriptions[item.k]
                ELSE item.k
    IN  {d \o " " \o desc :
            d \in (IF RGt(item.v, R(0)) THEN {"higher"}
                   ELSE IF RLt(item.v, R(0)) THEN {"lower"}
                   ELSE {"higher", "lower"})}

\* C8: interpretation returns "No significant deviations detected." exactly when
\* the ranked list is empty; otherwise "Top signals: " followed by one phrase
\* for each of the first min(3, n) entries in rank order, "higher <description>"
\* for z > 0 and "lower <description>" for z < 0, an unmapped key being
\* described by its raw key string.
C8_Interpretation ==
    pc = "done" =>
        LET t == top_features
            n == Len(t)
        IN  /\ (interpretation = "No significant deviations detected.") <=> (n = 0)
            /\ n = 1 => \E a \in PhrasesFor(t[1]) :
                  interpretation = "Top signals: " \o a
            /\ n = 2 => \E a \in PhrasesFor(t[1]), b \in PhrasesFor(t[2]) :
                  interpretation = "Top signals: " \o a \o ", " \o b
            /\ n >= 3 =>
                  \E a \in PhrasesFor(t[1]), b \in PhrasesFor(t[2]),
                     c \in PhrasesFor(t[3]) :
                      interpretation = "Top signals: " \o a \o ", " \o b \o ", " \o c

\* C8 witness: four ranked features, of which the first three are phrased: a
\* negative lexicon feature, a positive unmapped one and a positive lexicon one.
C8_Witness ==
    /\ pc = "done"
    /\ Len(top_features) = 4
    /\ interpretation = "Top signals: lower curvature, higher custom.a, higher eraser usage"

(***************************************************************************)
(* SpecChange: change_points = detect_change_points_simple(scores, thr)    *)
(***************************************************************************)
\* Longest score series drawn.
MaxScores == 5

\* Ordinary anomaly scores and one extreme one.
ScoreVals == {1, 2, 3, 4, 100}

\* The series of at most n scores.
ScoreSeqsUpTo(n) ==
    UNION {{[i \in 1..m |-> R(f[i])] : f \in [1..m -> ScoreVals]} : m \in 0..n}

Thresholds == {DefaultThreshold, R(1)}

InitChange ==
    /\ pc = "change"
    /\ anomaly_scores \in ScoreSeqsUpTo(MaxScores)
    /\ threshold \in Thresholds
    /\ change_points = None
    /\ zmap = None
    /\ IdleBaseline /\ IdleScore /\ IdleExtract

DetectChangePoints ==
    /\ pc = "change"
    /\ change_points' = detect_change_points_simple(anomaly_scores, threshold)
    /\ pc' = "done"
    /\ UNCHANGED <<anomaly_scores, threshold, zmap>>
    /\ UNCHANGED <<baselineVars, scoreVars, extractVars>>

NextChange == DetectChangePoints

SpecChange == InitChange /\ [][NextChange]_vars

\* The k-th smallest of a non-empty sequence of rationals, by counting.
KthOf(a, k) ==
    a[CHOOSE i \in 1..Len(a) :
          /\ Cardinality({j \in 1..Len(a) : RLt(a[j], a[i])}) < k
          /\ Cardinality({j \in 1..Len(a) : RLe(a[j], a[i])}) >= k]

\* The median of a non-empty sequence of rationals, from the order statistics.
MedianOf(a) ==
    RDiv(RAdd(KthOf(a, (Len(a) + 1) \div 2), KthOf(a, Len(a) \div 2 + 1)), R(2))

\* Position k holds the one extreme outlier: more than 10 times any other score.
ExtremeOutlierAt(k) ==
    \A j \in 1..Len(anomaly_scores) :
        j # k => RGt(anomaly_scores[k], RMul(R(10), anomaly_scores[j]))

\* C7 as stated: fewer than 5 scores give an empty list; a series of at least 5
\* scores with one extreme outlier, under threshold 2.5, gives exactly the
\* outlier's index.
C7_OutlierAlone ==
    pc = "done" =>
        /\ Len(anomaly_scores) < MinScores => change_points = <<>>
        /\ (Len(anomaly_scores) >= MinScores /\ threshold = DefaultThreshold) =>
              \A k \in 1..Len(anomaly_scores) :
                  ExtremeOutlierAt(k) => change_points = <<k - 1>>

\* C7 as amended: the list is empty for fewer than 5 scores and for a series
\* whose MAD is below 1e-6; otherwise it holds, in increasing order, exactly the
\* indices whose score is farther than threshold * MAD from the median.  Under
\* threshold 2.5 an extreme outlier's index is then in the list, and it is the
\* only one when every other score is within 2.5 MAD of the median.
C7_ChangePoints ==
    pc = "done" =>
        LET s == anomaly_scores
            n == Len(s)
            cp == change_points
        IN  IF n < MinScores THEN cp = <<>>
            ELSE LET med == MedianOf(s)
                     mad == MedianOf([i \in 1..n |-> RAbs(RSub(s[i], med))])
                     far(i) == RGt(RAbs(RSub(s[i], med)), RMul(threshold, mad))
                 IN  IF RLt(mad, MadEps) THEN cp = <<>>
                     ELSE /\ \A i \in 1..Len(cp) : cp[i] \in 0..(n - 1)
                          /\ \A i, j \in 1..Len(cp) : i < j => cp[i] < cp[j]
                          /\ \A i \in 1..n :
                                far(i) <=> \E j \in 1..Len(cp) : cp[j] = i - 1
                          /\ threshold = DefaultThreshold =>
                                \A k \in 1..n : ExtremeOutlierAt(k) =>
                                    /\ \E j \in 1..Len(cp) : cp[j] = k - 1
                                    /\ (\A i \in 1..n : i # k => ~far(i))
                                           => cp = <<k - 1>>

\* C7 witness: [1, 2, 3, 4, 100] under threshold 2.5 flags index 4 alone.
C7_Witness ==
    /\ pc = "done"
    /\ anomaly_scores = <<R(1), R(2), R(3), R(4), R(100)>>
    /\ threshold = DefaultThreshold
    /\ change_points = <<4>>

\* C7 second witness: a series with an extreme outlier and a degenerate MAD.
C7_DegenerateWitness ==
    /\ pc = "done"
    /\ anomaly_scores = <<R(1), R(1), R(1), R(1), R(100)>>
    /\ change_points = <<>>
(***************************************************************************)
(* SpecExtract: features = extract_features(drawing_data);                 *)
(*              qc = compute_qc_flags(features, strokes)                   *)
(***************************************************************************)
\* Most strokes in a drawn drawing.
MaxStrokes == 2

\* On the canvas, with pressure.
PointA == [x |-> 400, y |-> 300, t |-> 0, pressure |-> <<1, 2>>]

\* Left of the canvas by less than its width, without pressure.
PointB == [x |-> -100, y |-> 50, t |-> 1000]

\* Beyond the right and bottom edges, with pressure.
PointC == [x |-> 900, y |-> 700, t |-> 1000, pressure |-> R(1)]

\* Left of the canvas by more than its width, without pressure.
PointD == [x |-> -900, y |-> 300, t |-> 2000]

Points == {PointA, PointB, PointC, PointD}

\* Point lists of 0 to 3 points with non-decreasing timestamps.
PointLists ==
    UNION {{pl \in [1..n -> Points] :
               \A i \in 1..(n - 1) : pl[i].t <= pl[i + 1].t} :
              n \in 0..(MinStrokePoints + 1)}

HexRed == <<"#", "F", "F", "0", "0", "0", "0">>

NamedRed == <<"r", "e", "d">>

\* "#FF6600": hue 1/15, 12 * hue = 0.8.
HexOrange == <<"#", "F", "F", "6", "6", "0", "0">>

\* "#FF9900": hue 1/10, 12 * hue = 1.2.
HexAmber == <<"#", "F", "F", "9", "9", "0", "0">>

\* "#FF0033": hue 29/30, 12 * hue = 11.6.
HexRose == <<"#", "F", "F", "0", "0", "3", "3">>

\* Strokes of points only, and strokes that carry every attribute.
Strokes ==
    {[points |-> pl] : pl \in PointLists}
    \cup {[points |-> <<PointA, PointC>>, color |-> c, opacity |-> <<1, 2>>,
           layer |-> 1, tool |-> "eraser"] : c \in {HexRed, NamedRed}}
    \cup {[color |-> c] : c \in {HexRed, HexOrange, HexAmber, HexRose}}

\* Payloads of at most n strokes on the default canvas, payloads of one stroke
\* on a canvas of 1000 x 1000, and the payload without strokes.
DrawingsUpTo(n) ==
    {[strokes |-> ss] : ss \in UNION {[1..m -> Strokes] : m \in 0..n}}
    \cup {[strokes |-> <<st>>, canvas_w |-> 1000, canvas_h |-> 1000] :
             st \in Strokes}
    \cup {[canvas_w |-> 1000, canvas_h |-> 1000]}

InitExtract ==
    /\ pc = "extract"
    /\ drawing_data \in DrawingsUpTo(MaxStrokes)
    /\ features = None
    /\ qc = None
    /\ zmap = None
    /\ IdleBaseline /\ IdleScore /\ IdleChange

\* extract_features.py: features = extract_features(drawing_data); an
\* exception ends the run with an error payload.
ExtractFeatures ==
    /\ pc = "extract"
    /\ IF ExtractFails(drawing_data)
       THEN pc' = "failed" /\ features' = features
       ELSE pc' = "qc" /\ features' = extract_features(drawing_data)
    /\ UNCHANGED <<drawing_data, qc, zmap>>
    /\ UNCHANGED <<baselineVars, scoreVars, changeVars>>

\* extract_features.py: qc = compute_qc_flags(features, strokes)
ComputeQcFlags ==
    /\ pc = "qc"
    /\ qc' = compute_qc_flags(features, Get(drawing_data, "strokes", <<>>))
    /\ pc' = "done"
    /\ UNCHANGED <<drawing_data, features, zmap>>
    /\ UNCHANGED <<baselineVars, scoreVars, changeVars>>

NextExtract == ExtractFeatures \/ ComputeQcFlags

SpecExtract == InitExtract /\ [][NextExtract]_vars

\* The strokes and canvas of the payload.
DrawnStrokes == Get(drawing_data, "strokes", <<>>)

CanvasW == Get(drawing_data, "canvas_w", DefaultCanvasW)

CanvasH == Get(drawing_data, "canvas_h", DefaultCanvasH)

\* C1: for every drawing, also one whose strokes have no points, extract
\* returns a mapping whose key set is exactly the fixed vocabulary, the key set
\* of the zero-stroke default vector.
C1_FullVocabulary ==
    pc \in {"qc", "done"} => DOMAIN features = DOMAIN get_empty_features

\* floor(coord * size / extent), clamped into 0..size-1.
ClampedIndex(coord, extent, size) ==
    Max(0, Min((coord * size) \div extent, size - 1))

\* The counts of a size x size grid over the canvas with every point counted
\* in the cell nearest to it.
ClampedGrid(size) ==
    LET pts == AllPoints(DrawnStrokes)
        cell(n) == <<ClampedIndex(pts[n].y, CanvasH, size),
                     ClampedIndex(pts[n].x, CanvasW, size)>>
    IN  [c \in {cell(n) : n \in 1..Len(pts)} |->
            Cardinality({n \in 1..Len(pts) : cell(n) = c})]

\* C9: every point, also one off the canvas, is counted in the cell of the
\* 10 x 10 grid (and of the 3 x 3 thirds grid) with its row and column clamped
\* into the grid, and extraction never fails on an off-canvas point.
C9_OffCanvasClamped ==
    pc # "extract" =>
        /\ pc # "failed"
        /\ AllPoints(DrawnStrokes) # <<>> =>
              /\ features["comp.spatial_entropy"].of = ClampedGrid(GridSize)
              /\ features["comp.thirds_occupied"]
                     = R(Cardinality(DOMAIN ClampedGrid(ThirdsSize)))

\* The pressure values of all points of all strokes.
AllPressures ==
    LET with == SelectSeq(AllPoints(DrawnStrokes),
                          LAMBDA pt : "pressure" \in DOMAIN pt)
    IN  [i \in 1..Len(with) |-> with[i].pressure]

\* C10: geom.mean_pressure is the default 1.0 (with geom.std_pressure 0) exactly
\* when missing_pressure is true, that is when no point of any stroke carries a
\* pressure; otherwise it is the mean over all pressure-carrying points, those
\* of strokes with fewer than 2 points included.
C10_PressureDefault ==
    pc = "done" =>
        /\ qc.missing_pressure <=> AllPressures = <<>>
        /\ IF qc.missing_pressure
           THEN /\ features["geom.mean_pressure"] = R(1)
                /\ features["geom.std_pressure"] = R(0)
           ELSE features["geom.mean_pressure"] = RMean(AllPressures)

\* The largest timestamp, in ms, over all points of all strokes; 0 without points.
RECURSIVE MaxTimestamp(_)
MaxTimestamp(pts) ==
    IF pts = <<>> THEN 0
    ELSE Max(MaxTimestamp(SubSeq(pts, 1, Len(pts) - 1)), pts[Len(pts)].t)

\* C11: geom.pen_lift_rate is the number of strokes (those with fewer than 2
\* points included) divided by the session duration in seconds, the duration
\* being the maximum timestamp over all points of all strokes, and is 0 when
\* that duration is 0.
C11_PenLiftRate ==
    pc \in {"qc", "done"} =>
        LET duration == MaxTimestamp(AllPoints(DrawnStrokes))
        IN  features["geom.pen_lift_rate"]
                = IF duration > 0
                  THEN RDiv(R(Len(DrawnStrokes)), Norm(duration, 1000))
                  ELSE R(0)

\* The bin of a hue when [0, 1) is cut into 12 bins of width 1/12: floor(12 * h).
FloorBin(h) == RFloor(RMul(h, R(HueBins)))

\* C12: color.palette_size is the number of distinct bins floor(12 * h)
\* occupied by the strokes' hues, so two strokes whose hues fall in the same
\* bin of width 1/12 count as one colour, and it lies in 1..12 for any
\* non-empty list of strokes.
C12_PaletteSize ==
    (pc \in {"qc", "done"} /\ DrawnStrokes # <<>>) =>
        LET colors == StrokeColors(DrawnStrokes)
            bins == {FloorBin(colors[i][1]) : i \in 1..Len(colors)}
        IN  /\ features["color.palette_size"][2] = 1
            /\ features["color.palette_size"][1] \in 1..HueBins
            /\ colors # <<>> =>
                  features["color.palette_size"] = R(Cardinality(bins))

====
